---- MODULE Spec2Model ----
(***************************************************************************)
(* Model of cmd/bake-kas/scripts/kas_checkout.py: the Config class (the    *)
(* layered configuration facade) and the kas_checkout pipeline with its    *)
(* repo setup loop.                                                        *)
(***************************************************************************)
EXTENDS Integers, Sequences, FiniteSets, TLC

VARIABLES
    \* ---- kas_checkout pipeline (ctx and the position in setup_commands)
    cmd_idx,                 \* index of the command the for loop is at
    in_loop,                 \* Loop.execute of repo_setup_loop is active
    orch,                    \* orchestrator state of the convergence loop
    missing_repo_names,      \* ctx.missing_repo_names
    missing_repo_names_old,  \* ctx.missing_repo_names_old
    step_error,              \* exception thrown by the last cmd.execute
    caller_error,            \* exception that left kas_checkout
    ran,                     \* how often each command's execute was entered
    first_pass,              \* history: no pass after InitSetupRepos yet
    saw_incomparable,        \* history: a pass reported a set incomparable
                             \* with the previous one
    \* ---- Config object
    constructed,             \* "none", "ok" or "raised"
    filenames,               \* self.filenames
    handler,                 \* self.handler
    config,                  \* self._config
    repo_dict,               \* self.repo_dict
    override_target,         \* self._override_target
    override_task,           \* self._override_task
    environ,                 \* os.environ
    last_op,                 \* the method called last
    ret,                     \* what it returned
    stale_before             \* history: the names repo_dict held when the
                             \* get_repos call that just returned began

pipevars == <<cmd_idx, in_loop, orch, missing_repo_names,
              missing_repo_names_old, step_error, caller_error, ran,
              first_pass, saw_incomparable>>
objvars == <<constructed, filenames, handler, repo_dict, override_target,
             override_task, environ, last_op, ret, stale_before>>
vars == <<pipevars, objvars, config>>

----------------------------------------------------------------------------
\* Bounds

NumRepos == 2
MaxLen == 3
MaxFiles == 2

----------------------------------------------------------------------------
\* Python values

None == [none |-> TRUE]
Str(s) == [str |-> s]
List(l) == [list |-> l]
PySet(S) == [set |-> S]
EmptyDict == <<>>

AllNames == <<"foo", "bar", "baz", "qux">>
RepoNames == {AllNames[i] : i \in 1..NumRepos}

\* dict.get(k, default)
Get(d, k, default) == IF k \in DOMAIN d THEN d[k] ELSE default

----------------------------------------------------------------------------
\* Config: construction

Path(p) == [path |-> p]

\* The directories config files may lie in, and the version-control root
\* each of them lies under ("" for none).
Dirs == {"/a", "/a/sub", "/b", "/x", "/y"}
VcsRoot(d) ==
    CASE d \in {"/a", "/a/sub"} -> "/a"
      [] d = "/b" -> "/b"
      [] OTHER -> ""

FileLists == UNION {[1..n -> Dirs] : n \in 1..MaxFiles}

\* Repo.get_root_path(path, fallback): the root of the enclosing repository,
\* else the path itself (fallback) or None (no fallback).
get_root_path(d, fallback) ==
    IF VcsRoot(d) # "" THEN Path(VcsRoot(d))
    ELSE IF fallback THEN Path(d) ELSE None

\* The roots computed with the default fallback.
repo_paths_with_fallback(files) ==
    [i \in DOMAIN files |-> get_root_path(files[i], TRUE)]

\* repo_paths: the root of every config file, computed with fallback=False.
repo_paths_of(files) ==
    [i \in DOMAIN files |-> get_root_path(files[i], FALSE)]

\* Config.__init__(filename, target, task, update)
ConfigInit ==
    /\ constructed = "none"
    /\ \E files \in FileLists,
          target \in {None, List(<<Str(<<"img">>)>>)},
          task \in {None, Str(<<"fetch">>)},
          update \in BOOLEAN :
          LET top_repo_path == get_root_path(files[1], TRUE)
              repo_paths == repo_paths_of(files)
          IN  /\ override_target' = target
              /\ override_task' = task
              /\ config' = EmptyDict
              /\ filenames' = files
              /\ IF Cardinality({repo_paths[i] : i \in DOMAIN files}) > 1
                 THEN /\ constructed' = "raised"
                      /\ ret' = [exception |-> "IncludeException"]
                      /\ UNCHANGED <<handler, repo_dict>>
                 ELSE /\ constructed' = "ok"
                      /\ handler' = [filenames |-> files,
                                     top_repo_path |-> top_repo_path,
                                     use_lock |-> ~update]
                      /\ repo_dict' = EmptyDict
                      /\ ret' = None
    /\ last_op' = "__init__"
    /\ UNCHANGED <<pipevars, environ, stale_before>>

----------------------------------------------------------------------------
\* Config: repos

Fields == {"url", "branch"}

\* The entries a repo may have in the `repos` table: null, or a mapping.
RepoEntries ==
    {None, [url |-> "u"], [url |-> "u", branch |-> "dev"]}

\* `overrides.repos`: absent, or fields for one repo name.
OverrideTables ==
    {EmptyDict} \cup {[repos |-> [m \in {n} |-> [branch |-> "release"]]] :
                        n \in RepoNames}

DefaultTables == {EmptyDict, [repos |-> [branch |-> "main"]]}

WithKey(k, v) == IF v = EmptyDict THEN EmptyDict ELSE [x \in {k} |-> v]

\* The merged config with `repos` table r, `defaults` d and `overrides` o
\* (the latter two keys absent when empty).
MakeConfig(r, d, o) ==
    [k \in {"repos"} \cup DOMAIN WithKey("defaults", d)
                     \cup DOMAIN WithKey("overrides", o) |->
        CASE k = "repos" -> r
          [] k = "defaults" -> d
          [] k = "overrides" -> o]

\* The merged configs a resolution pass may produce after config c: one
\* more fragment was found or lost, so that one repo's entry, the defaults
\* or the overrides differ. Passes in a row give any replacement.
NextConfigs(c) ==
    LET r == Get(c, "repos", EmptyDict)
        d == Get(c, "defaults", EmptyDict)
        o == Get(c, "overrides", EmptyDict)
    IN  {MakeConfig([m \in DOMAIN r \cup {n} |-> IF m = n THEN e ELSE r[m]],
                    d, o) : n \in RepoNames, e \in RepoEntries}
        \cup {MakeConfig([m \in DOMAIN r \ {n} |-> r[m]], d, o) :
                n \in RepoNames}
        \cup {MakeConfig(r, d2, o) : d2 \in DefaultTables}
        \cup {MakeConfig(r, d, o2) : o2 \in OverrideTables}

\* Python truth value
Truthy(v) ==
    CASE v = EmptyDict -> FALSE
      [] "none" \in DOMAIN v -> FALSE
      [] "str" \in DOMAIN v -> Len(v.str) > 0
      [] "list" \in DOMAIN v -> Len(v.list) > 0
      [] OTHER -> TRUE

\* Config.find_missing_repos: the handler's merged config replaces _config
\* (the names it reports missing are returned to the caller).
find_missing_repos(c) == config' = c

\* Config.get_repos_config
get_repos_config == Get(config, "repos", EmptyDict)

\* Repo.factory(name, repo_config, repo_defaults, repo_fallback_path,
\* repo_overrides): every field from the overrides, else from the repo's
\* config, else from the defaults.
RepoFactory(name, repo_config, repo_defaults, top_repo_path, overrides) ==
    [name |-> name,
     fallback_path |-> top_repo_path,
     fields |->
        [f \in DOMAIN overrides \cup DOMAIN repo_config
                \cup DOMAIN repo_defaults |->
            IF f \in DOMAIN overrides THEN overrides[f]
            ELSE IF f \in DOMAIN repo_config THEN repo_config[f]
            ELSE repo_defaults[f]]]

\* The whole `overrides.repos` table, not the part for `name`.
repo_overrides_all(name) ==
    Get(Get(config, "overrides", EmptyDict), "repos", EmptyDict)

\* self._config.get('overrides', {}).get('repos', {}).get(name, {})
repo_overrides(name) ==
    Get(Get(Get(config, "overrides", EmptyDict), "repos", EmptyDict),
        name, EmptyDict)

\* Config.get_repo(name)
get_repo(name) ==
    LET repo_defaults ==
            Get(Get(config, "defaults", EmptyDict), "repos", EmptyDict)
        overrides == repo_overrides(name)
        entry == get_repos_config[name]
        repo_config == IF Truthy(entry) THEN entry ELSE EmptyDict
    IN  RepoFactory(name, repo_config, repo_defaults,
                    handler.top_repo_path, overrides)

\* Config._get_repo_dict
get_repo_dict == [name \in DOMAIN get_repos_config |-> get_repo(name)]

\* The handles stored by the last call are returned as they are.
refreshed_repo_dict_cached == repo_dict

\* get_repos: self.repo_dict = self._get_repo_dict()
refreshed_repo_dict == get_repo_dict

\* A call of find_missing_repos on the object.
FindMissingRepos ==
    /\ constructed = "ok"
    /\ \E c \in NextConfigs(config) : find_missing_repos(c)
    /\ last_op' = "find_missing_repos"
    /\ ret' = None
    /\ stale_before' = {}
    /\ UNCHANGED <<pipevars, constructed, filenames, handler, repo_dict,
                   override_target, override_task, environ>>

\* Config.get_repos
GetRepos ==
    /\ constructed = "ok"
    /\ repo_dict' = refreshed_repo_dict
    /\ ret' = PySet({repo_dict'[n] : n \in DOMAIN repo_dict'})
    /\ last_op' = "get_repos"
    /\ stale_before' = DOMAIN repo_dict
    /\ UNCHANGED <<pipevars, constructed, filenames, handler, config,
                   override_target, override_task, environ>>

----------------------------------------------------------------------------
\* Config: facade getters

Whitespace == {" "}

\* str.split(): the maximal runs of non-whitespace characters, in order.
RECURSIVE SplitRec(_, _, _)
SplitRec(rest, cur, acc) ==
    IF rest = <<>>
    THEN IF cur = <<>> THEN acc ELSE Append(acc, Str(cur))
    ELSE IF Head(rest) \in Whitespace
         THEN SplitRec(Tail(rest), <<>>,
                       IF cur = <<>> THEN acc ELSE Append(acc, Str(cur)))
         ELSE SplitRec(Tail(rest), Append(cur, Head(rest)), acc)

Split(s) == SplitRec(s.str, <<>>, <<>>)

IsStr(v) == "str" \in DOMAIN v

\* [i for i in os.environ.get('KAS_TARGET', '').split() if i]
environ_targets ==
    SelectSeq(Split(Get(environ, "KAS_TARGET", Str(<<>>))), Truthy)

\* The config's target is looked at before KAS_TARGET.
get_bitbake_targets_config_first ==
    IF Truthy(override_target) THEN override_target
    ELSE IF "target" \in DOMAIN config
         THEN IF IsStr(config["target"]) THEN List(<<config["target"]>>)
              ELSE config["target"]
         ELSE IF Len(environ_targets) > 0 THEN List(environ_targets)
              ELSE List(<<Str(<<"core-image-minimal">>)>>)

\* Config.get_bitbake_targets
get_bitbake_targets ==
    IF Truthy(override_target) THEN override_target
    ELSE IF Len(environ_targets) > 0 THEN List(environ_targets)
    ELSE LET target == Get(config, "target", Str(<<"core-image-minimal">>))
         IN  IF IsStr(target) THEN List(<<target>>) ELSE target

\* Config.get_bitbake_task
get_bitbake_task ==
    IF Truthy(override_task) THEN override_task
    ELSE Get(environ, "KAS_TASK", Get(config, "task", Str(<<"build">>)))

\* The config's machine is looked at before KAS_MACHINE.
get_machine_config_first ==
    Get(config, "machine",
        Get(environ, "KAS_MACHINE", Str(<<"qemux86-64">>)))

\* Config.get_machine
get_machine ==
    Get(environ, "KAS_MACHINE", Get(config, "machine", Str(<<"qemux86-64">>)))

\* Config.get_distro
get_distro ==
    Get(environ, "KAS_DISTRO", Get(config, "distro", Str(<<"poky">>)))

Getter(op, value) ==
    /\ constructed = "ok"
    /\ last_op' = op
    /\ ret' = value
    /\ UNCHANGED <<pipevars, constructed, filenames, handler, config,
                   repo_dict, override_target, override_task, environ,
                   stale_before>>

GetBitbakeTargets == Getter("get_bitbake_targets", get_bitbake_targets)
GetBitbakeTask == Getter("get_bitbake_task", get_bitbake_task)
GetMachine == Getter("get_machine", get_machine)
GetDistro == Getter("get_distro", get_distro)

\* Inputs of the getters

Chars == {" ", "a"}
EnvStrings == {Str(s) : s \in UNION {[1..n -> Chars] : n \in 0..MaxLen}}

\* The dict with the keys of f whose value is not Absent
Absent == [absent |-> TRUE]
Dict(f) == [k \in {x \in DOMAIN f : f[x] # Absent} |-> f[k]]

OverrideTargets == {None, List(<<>>), List(<<Str(<<"img">>)>>)}
OverrideTasks == {None, Str(<<>>), Str(<<"fetch">>)}
ConfigTargets ==
    {Absent, Str(<<"core-image-sato">>),
     List(<<Str(<<"core-image-minimal">>), Str(<<"mc:qemu:core-image-sato">>)>>)}
ConfigTasks == {Absent, Str(<<"populate_sdk">>)}
ConfigMachines == {Absent, Str(<<"qemux86-64">>), Str(<<"beaglebone">>)}
ConfigDistros == {Absent, Str(<<"debian">>)}
EnvTasks == {Absent, Str(<<>>), Str(<<"fetch_env">>)}
EnvMachines == {Absent, Str(<<"raspberrypi4">>)}
EnvDistros == {Absent, Str(<<"isar">>)}

----------------------------------------------------------------------------
\* kas_checkout pipeline

setup_commands_patch_first ==
    <<"setup_dir", "init_setup_repos", "repos_apply_patches",
      "repo_setup_loop", "finish_setup_repos", "setup_environ",
      "write_bbconfig">>

setup_commands ==
    <<"setup_dir", "init_setup_repos", "repo_setup_loop",
      "finish_setup_repos", "repos_apply_patches", "setup_environ",
      "write_bbconfig">>

CommandNames == {setup_commands[i] : i \in DOMAIN setup_commands}

\* Merged configs a resolution pass of the pipeline may produce: any subset
\* of the repo names declared, each with a null entry.
PipelineConfigs ==
    {[repos |-> [n \in S |-> None]] : S \in SUBSET RepoNames}

Error(cmd, kind, names) == [cmd |-> cmd, kind |-> kind, names |-> names]

AtCommand(name) ==
    /\ caller_error = None
    /\ cmd_idx \in DOMAIN setup_commands
    /\ setup_commands[cmd_idx] = name

Enter(name) == ran' = [ran EXCEPT ![name] = @ + 1]

\* The exception is caught and the for loop goes on with the next command.
Swallow(err) ==
    /\ caller_error' = caller_error
    /\ cmd_idx' = cmd_idx + 1

\* cmd.execute(ctx) raised: nothing in kas_checkout catches it, the for loop
\* is left and the exception reaches the caller.
Propagate(err) ==
    /\ caller_error' = err
    /\ cmd_idx' = cmd_idx

\* cmd.execute(ctx) returned: the for loop takes the next command.
Advance ==
    /\ caller_error' = caller_error
    /\ cmd_idx' = cmd_idx + 1

\* A command of kas.libcmds that this pipeline only calls: it returns or
\* raises.
ExecuteExternal(name) ==
    /\ AtCommand(name)
    /\ Enter(name)
    /\ \/ /\ step_error' = None
          /\ Advance
       \/ /\ step_error' = Error(name, "error", {})
          /\ Propagate(step_error')
    /\ UNCHANGED <<in_loop, orch, missing_repo_names, missing_repo_names_old,
                   first_pass, saw_incomparable, objvars, config>>

SetupDir == ExecuteExternal("setup_dir")
FinishSetupRepos == ExecuteExternal("finish_setup_repos")
ReposApplyPatches == ExecuteExternal("repos_apply_patches")
SetupEnviron == ExecuteExternal("setup_environ")
WriteBBConfig == ExecuteExternal("write_bbconfig")

\* The empty set used as the "no previous pass" value.
InitialOldEmpty == PySet({})

\* ctx.missing_repo_names_old = None
InitialOld == None

\* InitSetupRepos.execute: the first resolution pass.
InitSetupRepos ==
    /\ AtCommand("init_setup_repos")
    /\ Enter("init_setup_repos")
    /\ \/ \E c \in PipelineConfigs, m \in SUBSET RepoNames :
             /\ find_missing_repos(c)
             /\ missing_repo_names' = PySet(m)
             /\ missing_repo_names_old' = InitialOld
             /\ orch' = "Resolving"
             /\ first_pass' = TRUE
             /\ step_error' = None
             /\ Advance
       \/ /\ step_error' = Error("init_setup_repos", "IncludeException", {})
          /\ Propagate(step_error')
          /\ UNCHANGED <<config, missing_repo_names, missing_repo_names_old,
                         orch, first_pass>>
    /\ UNCHANGED <<in_loop, saw_incomparable, objvars>>

\* Loop.execute of repo_setup_loop is entered.
LoopEnter ==
    /\ AtCommand("repo_setup_loop")
    /\ ~in_loop
    /\ Enter("repo_setup_loop")
    /\ in_loop' = TRUE
    /\ UNCHANGED <<cmd_idx, orch, missing_repo_names, missing_repo_names_old,
                   step_error, caller_error, first_pass, saw_incomparable,
                   objvars, config>>

\* The comparison never reports non-convergence.
NotConvergingNever(old, new) == FALSE

\* The new MissingRepoSet is identical to, or a superset of, the previous
\* pass's one (the first pass has no previous one).
NotConverging(old, new) ==
    /\ old # None
    /\ old.set \subseteq new.set

\* The step of the loop in state Resolving: converge, fail or go fetching.
SetupReposStepResolve ==
    /\ AtCommand("repo_setup_loop")
    /\ in_loop
    /\ orch = "Resolving"
    /\ IF missing_repo_names.set = {}
       THEN /\ orch' = "Converged"
            /\ in_loop' = FALSE
            /\ step_error' = None
            /\ Advance
            /\ UNCHANGED missing_repo_names_old
       ELSE IF NotConverging(missing_repo_names_old, missing_repo_names)
            THEN /\ orch' = "Failed"
                 /\ in_loop' = FALSE
                 /\ step_error' = Error("repo_setup_loop", "non_convergence",
                                        missing_repo_names.set)
                 /\ Propagate(step_error')
                 /\ UNCHANGED missing_repo_names_old
            ELSE /\ orch' = "Fetching"
                 /\ missing_repo_names_old' = missing_repo_names
                 /\ UNCHANGED <<in_loop, step_error, caller_error, cmd_idx>>
    /\ UNCHANGED <<missing_repo_names, ran, first_pass, saw_incomparable,
                   objvars, config>>

\* The step of the loop in state Fetching: the fetch collaborator is called
\* for every missing repo, then the configuration is resolved again.
SetupReposStepFetch ==
    /\ AtCommand("repo_setup_loop")
    /\ in_loop
    /\ orch = "Fetching"
    /\ \/ \E c \in PipelineConfigs, m \in SUBSET RepoNames :
             /\ find_missing_repos(c)
             /\ missing_repo_names' = PySet(m)
             /\ orch' = "Resolving"
             /\ first_pass' = FALSE
             /\ saw_incomparable' =
                    (\/ saw_incomparable
                     \/ /\ ~(m \subseteq missing_repo_names_old.set)
                        /\ ~(missing_repo_names_old.set \subseteq m))
             /\ UNCHANGED <<in_loop, step_error, caller_error, cmd_idx>>
       \/ /\ orch' = "Failed"
          /\ in_loop' = FALSE
          /\ step_error' = Error("repo_setup_loop", "fetch_error", {})
          /\ Propagate(step_error')
          /\ UNCHANGED <<config, missing_repo_names, first_pass,
                         saw_incomparable>>
    /\ UNCHANGED <<missing_repo_names_old, ran, objvars>>

\* kas_checkout has not run yet.
InitPipeline ==
    /\ cmd_idx = 1
    /\ in_loop = FALSE
    /\ orch = "Idle"
    /\ missing_repo_names = None
    /\ missing_repo_names_old = None
    /\ step_error = None
    /\ caller_error = None
    /\ ran = [c \in CommandNames |-> 0]
    /\ first_pass = FALSE
    /\ saw_incomparable = FALSE

\* Config("/a/kas.yml") has returned.
InitObject ==
    /\ constructed = "ok"
    /\ filenames = <<"/a">>
    /\ handler = [filenames |-> <<"/a">>, top_repo_path |-> Path("/a"),
                  use_lock |-> TRUE]
    /\ repo_dict = EmptyDict
    /\ override_target = None
    /\ override_task = None
    /\ environ = EmptyDict
    /\ last_op = "__init__"
    /\ ret = None
    /\ stale_before = {}

Init ==
    /\ InitPipeline
    /\ InitObject
    /\ config = EmptyDict

Next ==
    \/ SetupDir
    \/ InitSetupRepos
    \/ LoopEnter
    \/ SetupReposStepResolve
    \/ SetupReposStepFetch
    \/ FinishSetupRepos
    \/ ReposApplyPatches
    \/ SetupEnviron
    \/ WriteBBConfig

Spec == Init /\ [][Next]_vars

\* The pipeline is sequential and every call it makes returns or raises.
FairSpec == Spec /\ WF_vars(Next)

\* Before Config(...) is called.
InitConstruct ==
    /\ InitPipeline
    /\ constructed = "none"
    /\ filenames = None
    /\ handler = None
    /\ config = None
    /\ repo_dict = None
    /\ override_target = None
    /\ override_task = None
    /\ environ = EmptyDict
    /\ last_op = "none"
    /\ ret = None
    /\ stale_before = {}

NextConstruct == ConfigInit

ConstructSpec == InitConstruct /\ [][NextConstruct]_vars

NextConfig ==
    \/ FindMissingRepos
    \/ GetRepos

ConfigSpec == Init /\ [][NextConfig]_vars

\* After construction and resolution: the overrides, the environment and the
\* config's keys are drawn from the bounded sets.
InitFacade ==
    /\ InitPipeline
    /\ constructed = "ok"
    /\ filenames = <<"/a">>
    /\ handler = [filenames |-> <<"/a">>, top_repo_path |-> Path("/a"),
                  use_lock |-> TRUE]
    /\ repo_dict = EmptyDict
    /\ override_target \in OverrideTargets
    /\ override_task \in OverrideTasks
    /\ \E t \in EnvStrings \cup {Absent}, k \in EnvTasks,
          m \in EnvMachines, d \in EnvDistros :
          environ = Dict([KAS_TARGET |-> t, KAS_TASK |-> k,
                          KAS_MACHINE |-> m, KAS_DISTRO |-> d])
    /\ \E t \in ConfigTargets, k \in ConfigTasks,
          m \in ConfigMachines, d \in ConfigDistros :
          config = Dict([target |-> t, task |-> k, machine |-> m,
                         distro |-> d])
    /\ last_op = "find_missing_repos"
    /\ ret = None
    /\ stale_before = {}

NextFacade ==
    \/ GetBitbakeTargets
    \/ GetBitbakeTask
    \/ GetMachine
    \/ GetDistro

FacadeSpec == InitFacade /\ [][NextFacade]_vars

----------------------------------------------------------------------------
\* Claims about the pipeline (checked under Spec and FairSpec)

Running == {"Resolving", "Fetching"}
Terminal == {"Converged", "Failed"}

Completed(name) ==
    /\ ran[name] >= 1
    /\ \/ cmd_idx \notin DOMAIN setup_commands
       \/ setup_commands[cmd_idx] # name

\* C1: when a resolution pass that follows a fetch attempt reports a
\* MissingRepoSet that is identical to or a superset of the previous pass's
\* one, the next state is Failed, the failure that reaches the caller names
\* the repos still missing, and from Failed nothing runs any more (no fetch,
\* no Converged).
C1_NonConvergenceFails ==
    [][ /\ ( /\ in_loop
             /\ orch = "Resolving"
             /\ ~first_pass
             /\ missing_repo_names_old.set \subseteq missing_repo_names.set )
           => /\ orch' = "Failed"
              /\ caller_error' # None
              /\ caller_error'.kind = "non_convergence"
              /\ caller_error'.names = missing_repo_names.set
              /\ ran' = ran
        /\ orch = "Failed" => UNCHANGED vars ]_vars

C1_Witness ==
    /\ orch = "Failed"
    /\ ~first_pass
    /\ caller_error # None
    /\ caller_error.kind = "non_convergence"
    /\ caller_error.names = missing_repo_names.set
    /\ missing_repo_names_old.set \subseteq missing_repo_names.set
    /\ missing_repo_names.set # {}

C7_PatchAndWriteAfterConvergence ==
    /\ ran["repos_apply_patches"] <= 1
    /\ ran["write_bbconfig"] <= 1
    /\ ran["repos_apply_patches"] >= 1 => (orch = "Converged" /\ ~in_loop)
    /\ ran["write_bbconfig"] >= 1 =>
          (orch = "Converged" /\ Completed("repos_apply_patches"))
    /\ orch # "Converged" =>
          (ran["repos_apply_patches"] = 0 /\ ran["write_bbconfig"] = 0)

C7_Witness ==
    /\ ran["write_bbconfig"] = 1
    /\ ran["repos_apply_patches"] = 1
    /\ cmd_idx = Len(setup_commands) + 1
    /\ caller_error = None

\* C9: after InitSetupRepos the previous-pass set is a sentinel that differs
\* from every set of repo names (the empty set included), and the first pass
\* leads to Converged when its MissingRepoSet is empty and to Fetching
\* otherwise, never to Failed.
C9_FirstPassNeverFails ==
    [][ /\ ( /\ first_pass'
             /\ orch' = "Resolving" )
           => /\ missing_repo_names_old' = None
              /\ \A S \in SUBSET RepoNames : missing_repo_names_old' # PySet(S)
              /\ missing_repo_names' \in {PySet(S) : S \in SUBSET RepoNames}
        /\ ( /\ first_pass
             /\ in_loop
             /\ orch = "Resolving" )
           => /\ orch' = IF missing_repo_names.set = {}
                         THEN "Converged" ELSE "Fetching"
              /\ caller_error' = None ]_vars

C9_Witness ==
    /\ first_pass
    /\ orch = "Fetching"
    /\ missing_repo_names.set = RepoNames

\* C10: every step is taken while no exception has left kas_checkout, and
\* when a command raises, the exception reaches the caller, the command was
\* entered exactly once and no later command was entered.
C10_FailurePropagates ==
    [][ /\ caller_error = None
        /\ step_error' # None
           => /\ caller_error' = step_error'
              /\ ran'[step_error'.cmd] = 1
              /\ \A j \in DOMAIN setup_commands :
                    j > cmd_idx' => ran'[setup_commands[j]] = 0 ]_vars

C10_Witness ==
    /\ caller_error # None
    /\ caller_error.cmd = "repos_apply_patches"
    /\ ran["repos_apply_patches"] = 1
    /\ ran["setup_environ"] = 0
    /\ ran["write_bbconfig"] = 0

----------------------------------------------------------------------------
\* Claims about Config (checked under ConstructSpec, ConfigSpec, FacadeSpec)

\* C3: Config(...) raises the IncludeException, with no include handler
\* created and no repo_dict set, exactly when the version-control roots of
\* the config files ("" for a file outside any root) are not all the same;
\* otherwise it returns the object with its handler.
C3_MixedRootsRejected ==
    constructed # "none" =>
        LET roots == {VcsRoot(filenames[i]) : i \in DOMAIN filenames}
        IN  /\ (constructed = "raised") <=> (Cardinality(roots) > 1)
            /\ constructed = "raised" =>
                  /\ handler = None
                  /\ repo_dict = None
                  /\ ret = [exception |-> "IncludeException"]
            /\ constructed = "ok" =>
                  /\ handler # None
                  /\ handler.filenames = filenames
                  /\ ret = None

C3_Witness ==
    /\ constructed = "raised"
    /\ Len(filenames) = 2
    /\ VcsRoot(filenames[1]) = "/a"
    /\ VcsRoot(filenames[2]) = ""

AbsentField == "<absent>"

FieldOf(d, f) == IF f \in DOMAIN d THEN d[f] ELSE AbsentField

\* The value the layering gives field f of repo n in config c.
LayeredField(c, n, f) ==
    LET over == IF /\ "overrides" \in DOMAIN c
                   /\ "repos" \in DOMAIN c["overrides"]
                   /\ n \in DOMAIN c["overrides"]["repos"]
                THEN c["overrides"]["repos"][n] ELSE EmptyDict
        own == IF c["repos"][n] = None THEN EmptyDict ELSE c["repos"][n]
        dflt == IF /\ "defaults" \in DOMAIN c
                   /\ "repos" \in DOMAIN c["defaults"]
                THEN c["defaults"]["repos"] ELSE EmptyDict
    IN  IF f \in DOMAIN over THEN over[f]
        ELSE IF f \in DOMAIN own THEN own[f]
        ELSE FieldOf(dflt, f)

DeclaredRepos == IF "repos" \in DOMAIN config THEN DOMAIN config["repos"] ELSE {}

\* C6: the handle get_repo builds for a declared repo takes every field from
\* overrides.repos.<name> if it is there, else from the repo's own entry (a
\* null entry being empty), else from defaults.repos.
C6_RepoFieldLayering ==
    last_op = "get_repos" =>
        \A n \in DeclaredRepos : \A f \in Fields :
            FieldOf(repo_dict[n].fields, f) = LayeredField(config, n, f)

C6_Witness ==
    /\ last_op = "get_repos"
    /\ DeclaredRepos = {"foo", "bar"}
    /\ config["repos"]["foo"] = [url |-> "u"]
    /\ config["repos"]["bar"] = None
    /\ "defaults" \in DOMAIN config
    /\ config["defaults"]["repos"]["branch"] = "main"
    /\ "overrides" \in DOMAIN config
    /\ config["overrides"]["repos"] = [m \in {"foo"} |-> [branch |-> "release"]]
    /\ repo_dict["foo"].fields["branch"] = "release"
    /\ repo_dict["bar"].fields["branch"] = "main"

\* C8: get_repos returns exactly one handle per name of the current `repos`
\* table, each derived from the current config, and repo_dict holds exactly
\* these handles after the call, whatever it held before.
C8_ReposFollowConfig ==
    last_op = "get_repos" =>
        /\ DOMAIN repo_dict = DeclaredRepos
        /\ ret = PySet({repo_dict[n] : n \in DeclaredRepos})
        /\ {h.name : h \in ret.set} = DeclaredRepos
        /\ Cardinality(ret.set) = Cardinality(DeclaredRepos)
        /\ \A n \in DeclaredRepos :
              /\ repo_dict[n].name = n
              /\ DOMAIN repo_dict[n].fields =
                    {f \in Fields : LayeredField(config, n, f) # AbsentField}
              /\ \A f \in DOMAIN repo_dict[n].fields :
                    repo_dict[n].fields[f] = LayeredField(config, n, f)

C8_Witness ==
    /\ last_op = "get_repos"
    /\ "foo" \in stale_before
    /\ "foo" \notin DeclaredRepos
    /\ "bar" \notin stale_before
    /\ "bar" \in DOMAIN repo_dict

EnvSet(var) == var \in DOMAIN environ

\* The default of a getter, a string.
Default(name) == Str(<<name>>)

EnvConfigDefault(var, key, default) ==
    IF EnvSet(var) THEN environ[var]
    ELSE IF key \in DOMAIN config THEN config[key]
    ELSE Default(default)

ConfigTargetOrDefault ==
    IF "target" \in DOMAIN config
    THEN IF IsStr(config["target"]) THEN List(<<config["target"]>>)
         ELSE config["target"]
    ELSE List(<<Default("core-image-minimal")>>)

HasToken(v) == \E i \in DOMAIN v.str : v.str[i] \notin Whitespace

\* C4 as stated: the override if one was given, else the tokens of
\* KAS_TARGET if the variable is set, else the config's target, else the
\* default.
C4_Original ==
    last_op = "get_bitbake_targets" =>
        ret = IF override_target # None THEN override_target
              ELSE IF EnvSet("KAS_TARGET")
                   THEN List(Split(environ["KAS_TARGET"]))
                   ELSE ConfigTargetOrDefault

\* C4 amended: the override if one was given and is not empty, else the
\* tokens of KAS_TARGET if the variable is set and holds at least one token,
\* else the config's target (a string wrapped into a list, a list as it is),
\* else the list of "core-image-minimal".
C4_TargetPrecedence ==
    last_op = "get_bitbake_targets" =>
        ret = IF override_target # None /\ Len(override_target.list) > 0
              THEN override_target
              ELSE IF EnvSet("KAS_TARGET") /\ HasToken(environ["KAS_TARGET"])
                   THEN List(Split(environ["KAS_TARGET"]))
                   ELSE ConfigTargetOrDefault

C4_Witness ==
    /\ last_op = "get_bitbake_targets"
    /\ override_target = None
    /\ EnvSet("KAS_TARGET")
    /\ environ["KAS_TARGET"] = Str(<<"a", " ", "a">>)
    /\ "target" \in DOMAIN config
    /\ ret = List(<<Str(<<"a">>), Str(<<"a">>)>>)

\* C5 as stated: task, machine and distro come from the environment variable
\* if it is set, else from the config, else from the default; for the task,
\* an override that was given comes first.
C5_Original ==
    /\ last_op = "get_bitbake_task" =>
          ret = IF override_task # None THEN override_task
                ELSE EnvConfigDefault("KAS_TASK", "task", "build")
    /\ last_op = "get_machine" =>
          ret = EnvConfigDefault("KAS_MACHINE", "machine", "qemux86-64")
    /\ last_op = "get_distro" =>
          ret = EnvConfigDefault("KAS_DISTRO", "distro", "poky")

\* C5 amended: the same, with the task override coming first only when it
\* was given and is not the empty string.
C5_EnvPrecedence ==
    /\ last_op = "get_bitbake_task" =>
          ret = IF override_task # None /\ Len(override_task.str) > 0
                THEN override_task
                ELSE EnvConfigDefault("KAS_TASK", "task", "build")
    /\ last_op = "get_machine" =>
          ret = EnvConfigDefault("KAS_MACHINE", "machine", "qemux86-64")
    /\ last_op = "get_distro" =>
          ret = EnvConfigDefault("KAS_DISTRO", "distro", "poky")

C5_Witness ==
    /\ last_op = "get_machine"
    /\ "machine" \in DOMAIN config
    /\ config["machine"] = Str(<<"qemux86-64">>)
    /\ EnvSet("KAS_MACHINE")
    /\ environ["KAS_MACHINE"] = Str(<<"raspberrypi4">>)
    /\ ret = Str(<<"raspberrypi4">>)

====
